---------------------------- MODULE Spec2Model ----------------------------
(***************************************************************************)
(* Model of pdf_file_organizer: the pattern extractor (analyze_text), the  *)
(* classifier (extract_username, extract_project_type) and the batch loop  *)
(* of organize_pdfs.                                                       *)
(*                                                                         *)
(* A Python str is a sequence of Unicode code points (naturals).  Regular  *)
(* expressions are sequences of quantified character classes with one      *)
(* capturing group, matched by a backtracking matcher that tries the       *)
(* repetition counts in the order Python's re module does.                 *)
(***************************************************************************)
EXTENDS Integers, Sequences, FiniteSets, TLC

(***************************************************************************)
(* Characters                                                              *)
(***************************************************************************)
NL == 10          \* '\n'
COLON == 58       \* ':'
FWCOLON == 65306  \* U+FF1A fullwidth colon

\* str.isspace() / the regex class \s on str patterns
IsSpace(c) ==
    \/ c \in 9..13
    \/ c \in 28..32
    \/ c \in {133, 160, 5760, 8232, 8233, 8239, 8287, 12288}
    \/ c \in 8192..8202

\* [0-9]
IsAsciiDigit(c) == c \in 48..57

\* \d on a str pattern: Unicode decimal digits (ASCII, Arabic-Indic, fullwidth blocks)
IsDigit(c) == c \in 48..57 \/ c \in 1632..1641 \/ c \in 65296..65305

\* [一-龥々ぁ-んァ-ヶ]
IsCJK(c) ==
    \/ c \in 19968..40869
    \/ c = 12293
    \/ c \in 12353..12435
    \/ c \in 12449..12534

\* [a-zA-Z0-9._\-]
IsUserChar(c) == c \in 97..122 \/ c \in 65..90 \/ c \in 48..57 \/ c \in {46, 95, 45}

InNamed(n, c) ==
    CASE n = "s" -> IsSpace(c)
      [] n = "d" -> IsDigit(c)
      [] n = "0-9" -> IsAsciiDigit(c)
      [] n = "cjk" -> IsCJK(c)
      [] n = "user" -> IsUserChar(c)
      [] n = "dot" -> c # NL
      [] n = "any" -> TRUE

(***************************************************************************)
(* String helpers (str methods used by the code)                           *)
(***************************************************************************)
\* prefix test: str.startswith
StartsWith(s, p) == Len(s) >= Len(p) /\ SubSeq(s, 1, Len(p)) = p

\* substring test: `p in s`
Contains(s, p) == \E i \in 1..(Len(s) - Len(p) + 1) : SubSeq(s, i, i + Len(p) - 1) = p

\* str.split(sep) for a one-character separator
RECURSIVE SplitAt(_, _, _, _)
SplitAt(s, sep, i, cur) ==
    IF i > Len(s) THEN <<cur>>
    ELSE IF s[i] = sep THEN <<cur>> \o SplitAt(s, sep, i + 1, <<>>)
    ELSE SplitAt(s, sep, i + 1, Append(cur, s[i]))

\* text.split('\n')
SplitLines(s) == SplitAt(s, NL, 1, <<>>)

\* str.strip(): leading and trailing whitespace removed
Strip(s) ==
    LET keep == {i \in 1..Len(s) : ~IsSpace(s[i])}
    IN IF keep = {} THEN <<>>
       ELSE LET lo == CHOOSE i \in keep : \A j \in keep : i <= j
                hi == CHOOSE i \in keep : \A j \in keep : i >= j
            IN SubSeq(s, lo, hi)

(***************************************************************************)
(* Regular expressions                                                     *)
(***************************************************************************)
\* one literal character
Lit(c) == [set |-> {c}, named |-> {}, min |-> 1, max |-> 1, greedy |-> TRUE]
\* a character class, once
One(set, named) == [set |-> set, named |-> named, min |-> 1, max |-> 1, greedy |-> TRUE]
\* class{lo,hi}, greedy; hi = -1 is unbounded
Rep(set, named, lo, hi) == [set |-> set, named |-> named, min |-> lo, max |-> hi, greedy |-> TRUE]
\* class*? (lazy)
LazyStar(set, named) == [set |-> set, named |-> named, min |-> 0, max |-> -1, greedy |-> FALSE]

RECURSIVE Lits(_)
Lits(s) == IF s = <<>> THEN <<>> ELSE <<Lit(Head(s))>> \o Lits(Tail(s))

InAtom(a, c) == c \in a.set \/ \E n \in a.named : InNamed(n, c)

\* the longest run of class characters from pos, capped by the atom's max
RECURSIVE MaxRun(_, _, _, _)
MaxRun(a, text, pos, n) ==
    IF (a.max # -1 /\ n >= a.max) \/ pos + n > Len(text) THEN n
    ELSE IF InAtom(a, text[pos + n]) THEN MaxRun(a, text, pos, n + 1)
    ELSE n

\* Match atoms k.. at pos; the boundaries <<start of atom k, ..., end>> or <<>>.
RECURSIVE MatchHere(_, _, _, _), TryCount(_, _, _, _, _, _)
MatchHere(atoms, text, k, pos) ==
    IF k > Len(atoms) THEN <<pos>>
    ELSE LET a == atoms[k]
             run == MaxRun(a, text, pos, 0)
         IN IF run < a.min THEN <<>>
            ELSE TryCount(atoms, text, k, pos, IF a.greedy THEN run ELSE a.min, run)

TryCount(atoms, text, k, pos, n, run) ==
    LET a == atoms[k]
        rest == MatchHere(atoms, text, k + 1, pos + n)
    IN IF rest # <<>> THEN <<pos>> \o rest
       ELSE IF a.greedy
            THEN (IF n > a.min THEN TryCount(atoms, text, k, pos, n - 1, run) ELSE <<>>)
            ELSE (IF n < run THEN TryCount(atoms, text, k, pos, n + 1, run) ELSE <<>>)

\* the match object of a match starting at s with boundaries b
MatchObj(re, text, b) ==
    LET s == b[1]
        e == b[Len(b)]
    IN [matched_text |-> SubSeq(text, s, e - 1),
        captured_group |-> SubSeq(text, b[re.gfrom], b[re.gto + 1] - 1),
        position |-> <<s - 1, e - 1>>]

\* re.finditer: all non-overlapping matches, left to right
RECURSIVE FindIter(_, _, _)
FindIter(re, text, from) ==
    IF from > Len(text) + 1 THEN <<>>
    ELSE LET b == MatchHere(re.atoms, text, 1, from)
         IN IF b = <<>> THEN FindIter(re, text, from + 1)
            ELSE <<MatchObj(re, text, b)>>
                 \o FindIter(re, text, IF b[Len(b)] > from THEN b[Len(b)] ELSE from + 1)

\* re.search: the first match, as a sequence of zero or one match objects
RECURSIVE Search(_, _, _)
Search(re, text, from) ==
    IF from > Len(text) + 1 THEN <<>>
    ELSE LET b == MatchHere(re.atoms, text, 1, from)
         IN IF b = <<>> THEN Search(re, text, from + 1)
            ELSE <<MatchObj(re, text, b)>>

(***************************************************************************)
(* Literals of the source                                                  *)
(***************************************************************************)
\* '案件名'
ANKENMEI == <<26696, 20214, 21517>>
\* '領収者'
RYOSHUSHA == <<38936, 21454, 32773>>
\* '領収書番号'
RYOSHUSHO_BANGO == <<38936, 21454, 26360, 30058, 21495>>
\* '追加支払い'
MARKER == <<36861, 21152, 25903, 25173, 12356>>
\* 'unknown_user'
UNKNOWN_USER == <<117, 110, 107, 110, 111, 119, 110, 95, 117, 115, 101, 114>>
\* the argument of line.startswith: '案件名：' (fullwidth colon)
LINE_PREFIX == ANKENMEI \o <<FWCOLON>>

\* [：:]
Separators == {FWCOLON, COLON}

\* the patterns dict of analyze_text; the keys stand for
\* 領収書番号, 発行日, 宛名, 領収者, 金額, 案件名 in this order
receipt_number_re ==
    [atoms |-> Lits(RYOSHUSHO_BANGO)
               \o <<One(Separators, {}), Rep({}, {"s"}, 0, -1), Rep({}, {"0-9"}, 1, -1)>>,
     gfrom |-> 8, gto |-> 8]

issue_date_re ==
    [atoms |-> <<Lit(30330), One({34892, 12175}, {}), Lit(26085), One(Separators, {}),
                 Rep({}, {"s"}, 0, -1),
                 Rep({}, {"d"}, 4, 4), Lit(24180), Rep({}, {"d"}, 1, 2), Lit(26376),
                 Rep({}, {"d"}, 1, 2), Lit(26085)>>,
     gfrom |-> 6, gto |-> 11]

addressee_re ==
    [atoms |-> <<Rep({}, {"cjk", "s"}, 1, 20), One({27096, 27583}, {})>>,
     gfrom |-> 1, gto |-> 1]

payee_re ==
    [atoms |-> Lits(RYOSHUSHA) \o <<Rep({FWCOLON}, {"s"}, 0, -1), Rep({}, {"cjk"}, 1, 20)>>,
     gfrom |-> 5, gto |-> 5]

amount_re ==
    [atoms |-> <<One({65509, 165}, {}), Rep({}, {"s"}, 0, -1), Rep({44}, {"0-9"}, 1, -1)>>,
     gfrom |-> 3, gto |-> 3]

project_name_re ==
    [atoms |-> Lits(ANKENMEI)
               \o <<One(Separators, {}), Rep({}, {"s"}, 0, -1), Rep({}, {"dot"}, 1, -1)>>,
     gfrom |-> 6, gto |-> 6]

patterns ==
    [receipt_number |-> receipt_number_re,
     issue_date |-> issue_date_re,
     addressee |-> addressee_re,
     payee |-> payee_re,
     amount |-> amount_re,
     project_name |-> project_name_re]

\* the table pattern of extract_username (re.DOTALL: '.' matches any character)
\* 品名\s+相⼿先\s+数量.*?\n.*?\s+([a-zA-Z0-9._\-]+)\s+\d+\s+個
table_re ==
    [atoms |-> Lits(<<21697, 21517>>) \o <<Rep({}, {"s"}, 1, -1)>>
               \o Lits(<<30456, 12095, 20808>>) \o <<Rep({}, {"s"}, 1, -1)>>
               \o Lits(<<25968, 37327>>)
               \o <<LazyStar({}, {"any"}), Lit(NL), LazyStar({}, {"any"}),
                    Rep({}, {"s"}, 1, -1), Rep({}, {"user"}, 1, -1),
                    Rep({}, {"s"}, 1, -1), Rep({}, {"d"}, 1, -1),
                    Rep({}, {"s"}, 1, -1), Lit(20491)>>,
     gfrom |-> 14, gto |-> 14]

(***************************************************************************)
(* Pattern extractor                                                       *)
(***************************************************************************)
CountNL(text) == Cardinality({i \in 1..Len(text) : text[i] = NL})

\* variant: only the labels with at least one match get an entry
analyze_text_OnlyFound(text) ==
    [total_length |-> Len(text),
     line_count |-> CountNL(text) + 1,
     patterns_found |->
        [key \in {k \in DOMAIN patterns : FindIter(patterns[k], text, 1) # <<>>}
            |-> FindIter(patterns[key], text, 1)]]

analyze_text(text) ==
    [total_length |-> Len(text),
     line_count |-> CountNL(text) + 1,
     patterns_found |-> [key \in DOMAIN patterns |-> FindIter(patterns[key], text, 1)]]

(***************************************************************************)
(* Classifier.  A call returns [exc, val]: exc = "none" and the value, or  *)
(* the exception the call raises.  The parameter `analysis` of the two     *)
(* extractors is the local variable analysis = self.analyze_text(text)     *)
(* (lines 136 and 159): analyze_text is pure, so the caller evaluates it   *)
(* once and hands the same value to both.                                  *)
(***************************************************************************)
Return(v) == [exc |-> "none", val |-> v]
Raise(e) == [exc |-> e, val |-> <<>>]

\* dict.get(key): the value, or None (falsy, like the empty list) when absent
DictGet(d, key) == IF key \in DOMAIN d THEN d[key] ELSE <<>>

\* seq[i] with a 1-based index: IndexError when out of range
Index(seq, i) == IF i \in 1..Len(seq) THEN Return(seq[i]) ELSE Raise("IndexError")

\* variant: the loop visits the last line too
LoopLines_All(lines) == 1..Len(lines)

\* the indices (1-based) visited by `for i, line in enumerate(lines[:-1])`
LoopLines(lines) == 1..(Len(lines) - 1)

\* the loop's test: line.startswith('案件名：')
IsLabelLine(line) == StartsWith(line, LINE_PREFIX)

\* str.rstrip(): trailing whitespace removed
RStrip(s) ==
    LET keep == {i \in 1..Len(s) : ~IsSpace(s[i])}
    IN IF keep = {} THEN <<>>
       ELSE SubSeq(s, 1, CHOOSE i \in keep : \A j \in keep : i >= j)

\* variant: lines[i + 1].rstrip()
NextLine_RStrip(lines, i) ==
    LET nxt == Index(lines, i + 1)
    IN IF nxt.exc # "none" THEN nxt ELSE Return(RStrip(nxt.val))

\* the loop body's result: lines[i + 1].strip()
NextLine(lines, i) ==
    LET nxt == Index(lines, i + 1)
    IN IF nxt.exc # "none" THEN nxt ELSE Return(Strip(nxt.val))

\* variant: the payee pattern is consulted before the line-following loop
extract_username_PayeeFirst(text, analysis) ==
    LET lines == SplitLines(text)
        hits == {i \in LoopLines(lines) : IsLabelLine(lines[i])}
        patterns_found == analysis.patterns_found
        table_match == Search(table_re, text, 1)
    IN IF DictGet(patterns_found, "payee") # <<>>
       THEN Return(patterns_found.payee[1].captured_group)
       ELSE IF hits # {}
       THEN NextLine(lines, CHOOSE i \in hits : \A j \in hits : i <= j)
       ELSE IF table_match # <<>>
       THEN Return(Strip(table_match[1].captured_group))
       ELSE Return(UNKNOWN_USER)

\* variant: the payee pattern is consulted before the table pattern
extract_username_PayeeBeforeTable(text, analysis) ==
    LET lines == SplitLines(text)
        hits == {i \in LoopLines(lines) : IsLabelLine(lines[i])}
        patterns_found == analysis.patterns_found
        table_match == Search(table_re, text, 1)
    IN IF hits # {}
       THEN NextLine(lines, CHOOSE i \in hits : \A j \in hits : i <= j)
       ELSE IF DictGet(patterns_found, "payee") # <<>>
       THEN Return(patterns_found.payee[1].captured_group)
       ELSE IF table_match # <<>>
       THEN Return(Strip(table_match[1].captured_group))
       ELSE Return(UNKNOWN_USER)

\* variant: the default step returns the empty string
extract_username_EmptyDefault(text, analysis) ==
    LET lines == SplitLines(text)
        hits == {i \in LoopLines(lines) : IsLabelLine(lines[i])}
        patterns_found == analysis.patterns_found
        table_match == Search(table_re, text, 1)
    IN IF hits # {}
       THEN NextLine(lines, CHOOSE i \in hits : \A j \in hits : i <= j)
       ELSE IF table_match # <<>>
       THEN Return(Strip(table_match[1].captured_group))
       ELSE IF DictGet(patterns_found, "payee") # <<>>
       THEN Return(patterns_found.payee[1].captured_group)
       ELSE Return(<<>>)

extract_username(text, analysis) ==
    LET lines == SplitLines(text)
        hits == {i \in LoopLines(lines) : IsLabelLine(lines[i])}
    IN IF hits # {}
       THEN NextLine(lines, CHOOSE i \in hits : \A j \in hits : i <= j)
       ELSE LET patterns_found == analysis.patterns_found
                table_match == Search(table_re, text, 1)
            IN IF table_match # <<>>
               THEN Return(Strip(table_match[1].captured_group))
               ELSE IF DictGet(patterns_found, "payee") # <<>>
               THEN LET first == Index(patterns_found.payee, 1)
                    IN IF first.exc # "none" THEN first
                       ELSE Return(first.val.captured_group)
               ELSE Return(UNKNOWN_USER)

\* variant: the raw text is searched for the marker before the project-name match
extract_project_type_BodyFirst(text, analysis) ==
    LET patterns_found == analysis.patterns_found
    IN IF Contains(text, MARKER) THEN Return("additional")
       ELSE IF "project_name" \in DOMAIN patterns_found /\ patterns_found.project_name # <<>>
       THEN LET project_name == patterns_found.project_name[1].captured_group
            IN IF Contains(project_name, MARKER) THEN Return("additional")
               ELSE Return("basic")
       ELSE Return("basic")

extract_project_type(text, analysis) ==
    LET patterns_found == analysis.patterns_found
    IN IF "project_name" \in DOMAIN patterns_found /\ patterns_found.project_name # <<>>
       THEN LET project_name == patterns_found.project_name[1].captured_group
            IN IF Contains(project_name, MARKER) THEN Return("additional")
               ELSE Return("basic")
       ELSE IF Contains(text, MARKER) THEN Return("additional")
       ELSE Return("basic")


(***************************************************************************)
(* Paths (pathlib.PurePosixPath): a path is [abs, parts]                   *)
(***************************************************************************)
DOT == <<46>>
DOTDOT == <<46, 46>>

\* Path(s): split on '/', empty and '.' components dropped, a leading '/' is the root
ParsePath(s) ==
    [abs |-> s # <<>> /\ s[1] = 47,
     parts |-> SelectSeq(SplitAt(s, 47, 1, <<>>), LAMBDA c : c # <<>> /\ c # DOT)]

\* p / q for paths: an absolute right operand replaces the left one
PathJoin(p, q) == IF q.abs THEN q ELSE [abs |-> p.abs, parts |-> p.parts \o q.parts]

\* p / s for a str s
PathJoinStr(p, s) == PathJoin(p, ParsePath(s))

\* path.parent and path.name of a relative path with at least one component
Parent(p) == [abs |-> p.abs, parts |-> SubSeq(p.parts, 1, Len(p.parts) - 1)]
Name(p) == p.parts[Len(p.parts)]

\* str comparison: by code points, a proper prefix first
StrLess(x, y) ==
    \E k \in 1..(Len(y)) :
        /\ k <= Len(x) + 1
        /\ SubSeq(x, 1, k - 1) = SubSeq(y, 1, k - 1)
        /\ k > Len(x) \/ x[k] < y[k]

\* Path comparison: the component lists, lexicographically
PathLess(p, q) ==
    \E k \in 1..Len(q.parts) :
        /\ k <= Len(p.parts) + 1
        /\ SubSeq(p.parts, 1, k - 1) = SubSeq(q.parts, 1, k - 1)
        /\ k > Len(p.parts) \/ StrLess(p.parts[k], q.parts[k])

\* sorted(set(paths))
SortPaths(S) ==
    CHOOSE s \in [1..Cardinality(S) -> S] :
        \A i, j \in 1..Cardinality(S) : i < j => PathLess(s[i], s[j])

\* where the operating system finds a path: '..' steps back (no symbolic links)
RECURSIVE Collapse(_, _, _)
Collapse(parts, acc, abs) ==
    IF parts = <<>> THEN acc
    ELSE IF Head(parts) # DOTDOT THEN Collapse(Tail(parts), Append(acc, Head(parts)), abs)
    ELSE IF acc # <<>> /\ acc[Len(acc)] # DOTDOT
         THEN Collapse(Tail(parts), SubSeq(acc, 1, Len(acc) - 1), abs)
    ELSE IF abs THEN Collapse(Tail(parts), acc, abs)
    ELSE Collapse(Tail(parts), Append(acc, DOTDOT), abs)

Resolve(p) == [abs |-> p.abs, parts |-> Collapse(p.parts, <<>>, p.abs)]

(***************************************************************************)
(* Constants of organize_pdfs                                              *)
(***************************************************************************)
\* 'projects', '_unknown', '.pdf'
PROJECTS == <<112, 114, 111, 106, 101, 99, 116, 115>>
UNKNOWN_DIR == <<95, 117, 110, 107, 110, 111, 119, 110>>
PDF_SUFFIX == <<46, 112, 100, 102>>

\* self.projects['basic']: '意思決定に関する心理学実験 (実験参加)'
BASIC_LABEL ==
    <<24847, 24605, 27770, 23450, 12395, 38306, 12377, 12427, 24515, 29702, 23398,
      23455, 39443, 32, 40, 23455, 39443, 21442, 21152, 41>>
\* self.projects['additional']: the basic label, a space and '追加支払い'
ADDITIONAL_LABEL == BASIC_LABEL \o <<32>> \o MARKER

projects == [basic |-> BASIC_LABEL, additional |-> ADDITIONAL_LABEL]

\* projects_dir, relative to result_dir
projects_dir == [abs |-> FALSE, parts |-> <<PROJECTS>>]

\* folder.glob('*.pdf'): the name ends with '.pdf'
IsPdf(p) ==
    LET n == Name(p)
    IN Len(n) >= Len(PDF_SUFFIX) /\ SubSeq(n, Len(n) - Len(PDF_SUFFIX) + 1, Len(n)) = PDF_SUFFIX

\* the test of line 274: username == 'unknown_user'
IsUnknownUser(name) == name = UNKNOWN_USER

\* variant: an exception leaves the loop, the remaining files are skipped
NextIndex_Abort(i, raised, n) == IF raised THEN n + 1 ELSE i + 1

\* the try/except is inside the loop body: the loop goes on to the next file
\* whether or not the body raised (n is the number of files)
NextIndex(i, raised, n) == i + 1

(***************************************************************************)
(* State                                                                   *)
(***************************************************************************)
VARIABLES
    pc,             \* where the program is
    text,           \* the text under classification (the loop's local `text`)
    username,       \* result of extract_username (the loop's local)
    project_type,   \* result of extract_project_type (the loop's local)
    analysis,       \* result of analyze_text
    tree,           \* the files under source_dir, relative to it
    pdf_files,      \* the sorted list of PDFs
    idx,            \* the loop's position in pdf_files (1-based)
    handled,        \* per processed file: what was extracted, decided and copied
    project_stats,  \* entries appended to project_stats[project][source_dir][username]
    user_stats,     \* entries appended to user_stats[username][project][source_dir]
    report          \* the totals written to the statistics file

vars == <<pc, text, username, project_type, analysis, tree, pdf_files, idx, handled,
          project_stats, user_stats, report>>

batch_vars == <<tree, pdf_files, idx, handled, project_stats, user_stats, report>>

MaxFrags == 3
MaxFiles == 2

None == [exc |-> "unset", val |-> <<>>]
NoAnalysis == [total_length |-> 0, line_count |-> 0, patterns_found |-> <<>>]

(***************************************************************************)
(* Classification of one text                                              *)
(***************************************************************************)
\* '品名 相⼿先 数量'
TABLE_HEADER == <<21697, 21517, 32, 30456, 12095, 20808, 32, 25968, 37327>>
\* ' a 1 個'
TABLE_ROW == <<32, 97, 32, 49, 32, 20491>>
\* a table: the header line and one row
TABLE == TABLE_HEADER \o <<NL>> \o TABLE_ROW
\* '領収者：田'
PAYEE_FIELD == RYOSHUSHA \o <<FWCOLON, 30000>>
\* '発行日：2024年3月5日'
ISSUE_DATE == <<30330, 34892, 26085, FWCOLON, 50, 48, 50, 52, 24180, 51, 26376, 53, 26085>>
\* '発⾏日:2024年12月25日' (the label's second character is U+2F8F)
ISSUE_DATE_ALT ==
    <<30330, 12175, 26085, COLON, 50, 48, 50, 52, 24180, 49, 50, 26376, 50, 53, 26085>>

\* the pieces the input texts are made of: the project-name label with either
\* separator, whitespace, the marker, an ASCII token, the payee label alone and
\* with a name, the table header, a table row, and a whole table
Frags ==
    {LINE_PREFIX, ANKENMEI \o <<COLON>>, <<32>>, <<NL>>, MARKER, <<97>>,
     RYOSHUSHA, PAYEE_FIELD, TABLE_HEADER, TABLE_ROW, TABLE}

\* the pieces of the second family, the fields of a receipt: '領収書番号：', '1',
\* ',', two issue dates, '様', '殿', '領収者', '¥', '案件名：', newline, the marker
FieldFrags ==
    {RYOSHUSHO_BANGO \o <<FWCOLON>>, <<49>>, <<44>>, ISSUE_DATE, ISSUE_DATE_ALT,
     <<27096>>, <<27583>>, RYOSHUSHA, <<165>>, LINE_PREFIX, <<NL>>, MARKER}

RECURSIVE Concat(_)
Concat(ss) == IF ss = <<>> THEN <<>> ELSE Head(ss) \o Concat(Tail(ss))

TextsOf(frags) == {Concat(fs) : fs \in UNION {[1..n -> frags] : n \in 0..MaxFrags}}

NoBatch ==
    /\ tree = {}
    /\ pdf_files = <<>>
    /\ idx = 0
    /\ handled = <<>>
    /\ project_stats = <<>>
    /\ user_stats = <<>>
    /\ report = <<>>

InitWith(texts) ==
    /\ text \in texts
    /\ pc = "start"
    /\ username = None
    /\ project_type = None
    /\ analysis = NoAnalysis
    /\ NoBatch

\* organize_pdfs lines 270-271 on one extracted text
Classify ==
    /\ pc = "start"
    /\ \E a \in {analyze_text(text)} :
          /\ username' = extract_username(text, a)
          /\ project_type' = extract_project_type(text, a)
          /\ analysis' = a
    /\ pc' = "done"
    /\ UNCHANGED <<text, batch_vars>>

NextClassify == Classify

InitClassify == InitWith(TextsOf(Frags))
InitFields == InitWith(TextsOf(FieldFrags))

\* texts made of labels, separators, whitespace and table rows
SpecClassify == InitClassify /\ [][NextClassify]_vars
\* texts made of the six fields of a receipt
SpecFields == InitFields /\ [][NextClassify]_vars

(***************************************************************************)
(* The batch: organize_pdfs                                                *)
(***************************************************************************)
\* 'a.pdf', 'b.pdf', 's1', 'c.txt'
A_PDF == <<97, 46, 112, 100, 102>>
B_PDF == <<98, 46, 112, 100, 102>>
S1 == <<115, 49>>
C_TXT == <<99, 46, 116, 120, 116>>

Rel(parts) == [abs |-> FALSE, parts |-> parts]

\* the files a source directory may hold
SourceFiles == {Rel(<<A_PDF>>), Rel(<<S1, A_PDF>>), Rel(<<S1, B_PDF>>), Rel(<<C_TXT>>)}

\* the texts extract_text_from_pdf may return: nothing, a basic receipt of user a,
\* an additional-payment receipt of user a, a text without user, and receipts whose
\* line after the label is '../_unknown', empty, 's1', or '../..'
DocTexts ==
    {<<>>,
     LINE_PREFIX \o <<97, NL, 97>>,
     LINE_PREFIX \o MARKER \o <<NL, 97>>,
     <<97>>,
     LINE_PREFIX \o <<97, NL>> \o DOTDOT \o <<47>> \o UNKNOWN_DIR,
     LINE_PREFIX \o <<97, NL>>,
     LINE_PREFIX \o <<97, NL>> \o S1,
     LINE_PREFIX \o <<97, NL>> \o DOTDOT \o <<47>> \o DOTDOT}

InitBatch ==
    /\ pc = "scan"
    /\ text = <<>>
    /\ username = None
    /\ project_type = None
    /\ analysis = NoAnalysis
    /\ tree \in {t \in SUBSET SourceFiles : Cardinality({f \in t : IsPdf(f)}) <= MaxFiles}
    /\ pdf_files = <<>>
    /\ idx = 0
    /\ handled = <<>>
    /\ project_stats = <<>>
    /\ user_stats = <<>>
    /\ report = <<>>

\* lines 240-250: collect the PDFs of every folder, sort them
Scan ==
    /\ pc = "scan"
    /\ pdf_files' = SortPaths({f \in tree : IsPdf(f)})
    /\ idx' = 1
    /\ pc' = "loop"
    /\ UNCHANGED <<text, username, project_type, analysis, tree, handled,
                   project_stats, user_stats, report>>

\* lines 254-298: one iteration of the loop.  t is what extract_text_from_pdf
\* returns; fail: mkdir or copy2 of the main path raises; fail2: mkdir or copy2
\* of the except branch raises.  copy2 either writes the destination or raises.
ProcessFile ==
    /\ pc = "loop"
    /\ idx <= Len(pdf_files)
    /\ \E t \in DocTexts :
       \E a \in {analyze_text(t)} :
       \E fail \in BOOLEAN, fail2 \in BOOLEAN :
          LET relative_path == pdf_files[idx]
              source_dir == Parent(relative_path)
              name == Name(relative_path)
              unknown_dir == PathJoin(PathJoinStr(projects_dir, UNKNOWN_DIR), source_dir)
              u == IF t = <<>> THEN None ELSE extract_username(t, a)
              pt == IF t = <<>> \/ u.exc # "none" THEN None ELSE extract_project_type(t, a)
              classified == t # <<>> /\ u.exc = "none" /\ pt.exc = "none"
              named == classified /\ ~IsUnknownUser(u.val)
              project_name == projects[pt.val]
              dest_dir ==
                  IF named
                  THEN PathJoinStr(PathJoin(PathJoinStr(projects_dir, project_name),
                                            source_dir), u.val)
                  ELSE unknown_dir
              raised == (t # <<>> /\ ~classified) \/ fail
              copies ==
                  IF ~raised THEN <<PathJoinStr(dest_dir, name)>>
                  ELSE IF fail2 THEN <<>>
                  ELSE <<PathJoinStr(unknown_dir, name)>>
          IN /\ text' = t
             /\ username' = IF t # <<>> /\ u.exc = "none" THEN u ELSE username
             /\ project_type' = IF classified THEN pt ELSE project_type
             /\ project_stats' =
                   IF named
                   THEN Append(project_stats,
                               [project |-> project_name, source_dir |-> source_dir,
                                username |-> u.val, name |-> name])
                   ELSE project_stats
             /\ user_stats' =
                   IF named
                   THEN Append(user_stats,
                               [username |-> u.val, project |-> project_name,
                                source_dir |-> source_dir, name |-> name])
                   ELSE user_stats
             /\ handled' = Append(handled,
                                  [file |-> relative_path, text |-> t,
                                   username |-> IF classified THEN u.val ELSE <<>>,
                                   project_type |-> IF classified THEN pt.val ELSE "",
                                   classified |-> classified,
                                   raised |-> raised,
                                   copies |-> copies])
             /\ idx' = NextIndex(idx, raised, Len(pdf_files))
    /\ UNCHANGED <<pc, analysis, tree, pdf_files, report>>

\* lines 300-338: the statistics, written when the loop is over
WriteStatistics ==
    /\ pc = "loop"
    /\ idx > Len(pdf_files)
    /\ report' =
          [projects |->
              [p \in {project_stats[k].project : k \in DOMAIN project_stats} |->
                  Cardinality({k \in DOMAIN project_stats : project_stats[k].project = p})],
           users |->
              [n \in {user_stats[k].username : k \in DOMAIN user_stats} |->
                  Cardinality({k \in DOMAIN user_stats : user_stats[k].username = n})]]
    /\ pc' = "done"
    /\ UNCHANGED <<text, username, project_type, analysis, tree, pdf_files, idx,
                   handled, project_stats, user_stats>>

Next == Scan \/ ProcessFile \/ WriteStatistics

Init == InitBatch

Spec == Init /\ [][Next]_vars

(***************************************************************************)
(* Properties of the classifier                                            *)
(***************************************************************************)
PatternLabels ==
    {"receipt_number", "issue_date", "addressee", "payee", "amount", "project_name"}

IsString(s) == DOMAIN s = 1..Len(s) /\ \A i \in DOMAIN s : s[i] \in Nat

Lines == SplitLines(text)

\* the lines, other than the last, that start with '案件名：'
LabelLines == {i \in 1..(Len(Lines) - 1) : StartsWith(Lines[i], LINE_PREFIX)}
FirstLabelLine == CHOOSE i \in LabelLines : \A j \in LabelLines : i <= j

\* the lines, other than the last, that start with the label and either separator
LabelLinesAnySep ==
    {i \in 1..(Len(Lines) - 1) :
        \E sep \in Separators : StartsWith(Lines[i], ANKENMEI \o <<sep>>)}

\* r is s without its leading and trailing whitespace
IsTrimOf(r, s) ==
    \E a \in 0..Len(s) :
        /\ a + Len(r) <= Len(s)
        /\ SubSeq(s, a + 1, a + Len(r)) = r
        /\ \A i \in 1..a : IsSpace(s[i])
        /\ \A i \in (a + Len(r) + 1)..Len(s) : IsSpace(s[i])
        /\ r # <<>> => ~IsSpace(r[1]) /\ ~IsSpace(r[Len(r)])

\* r is s without its trailing whitespace, leading whitespace kept
IsRightTrimOf(r, s) ==
    /\ Len(r) <= Len(s)
    /\ SubSeq(s, 1, Len(r)) = r
    /\ \A i \in (Len(r) + 1)..Len(s) : IsSpace(s[i])
    /\ r # <<>> => ~IsSpace(r[Len(r)])

Found == analysis.patterns_found
TableMatch == Search(table_re, text, 1)

\* C1: classification of any text completes without raising and yields a project
\* type in {basic, additional} together with a string username.
C1_Totality ==
    pc = "done" =>
        /\ username.exc = "none"
        /\ project_type.exc = "none"
        /\ project_type.val \in {"basic", "additional"}
        /\ IsString(username.val)

\* C1 witness: a classified text whose last line carries the project-name label
\* (the line the loop must not look beyond).
C1_Witness ==
    /\ pc = "done"
    /\ StartsWith(Lines[Len(Lines)], LINE_PREFIX)
    /\ username.exc = "none"

\* C2 as stated: whenever some line that starts with the label and either
\* separator is immediately followed by a non-empty line, the username is that
\* following line, trimmed.
C2_Original ==
    pc = "done" =>
        \A i \in LabelLinesAnySep :
            Lines[i + 1] # <<>> => username = Return(Strip(Lines[i + 1]))

\* C2 amended: when the first line, other than the last, that starts with
\* '案件名：' (fullwidth colon) is followed by a non-empty line, the username is that
\* following line stripped of leading and trailing whitespace, whatever the payee
\* and table patterns match.
C2_CascadePriority ==
    pc = "done" /\ LabelLines # {} /\ Lines[FirstLabelLine + 1] # <<>> =>
        username = Return(Strip(Lines[FirstLabelLine + 1]))

\* C2 witness: the line-following step wins over a payee match with other content.
C2_Witness ==
    /\ pc = "done"
    /\ LabelLines # {}
    /\ Lines[FirstLabelLine + 1] # <<>>
    /\ Found.payee # <<>>
    /\ Found.payee[1].captured_group # username.val
    /\ username.val = Strip(Lines[FirstLabelLine + 1])

\* C3: the project type is additional exactly when (a) the project-name pattern
\* matches and its first captured group contains the marker, or (b) it does not
\* match and the raw text contains the marker; otherwise it is basic.
C3_ProjectType ==
    pc = "done" =>
        /\ project_type.val \in {"basic", "additional"}
        /\ project_type.val = "additional" <=>
              \/ /\ Found.project_name # <<>>
                 /\ Contains(Found.project_name[1].captured_group, MARKER)
              \/ /\ Found.project_name = <<>>
                 /\ Contains(text, MARKER)

\* C3 witness: a project-name match without the marker, the marker elsewhere in
\* the body, and the result basic.
C3_Witness ==
    /\ pc = "done"
    /\ Found.project_name # <<>>
    /\ ~Contains(Found.project_name[1].captured_group, MARKER)
    /\ Contains(text, MARKER)
    /\ project_type.val = "basic"

NoPatternNoStructure ==
    /\ \A key \in PatternLabels : Found[key] = <<>>
    /\ \A i \in 1..(Len(Lines) - 1) : ~StartsWith(Lines[i], LINE_PREFIX)
    /\ TableMatch = <<>>

\* C4 as stated: a text with no match of the six patterns, no label line followed
\* by another line and no table is classified (basic, 'unknown_user').
C4_Original ==
    pc = "done" /\ NoPatternNoStructure =>
        /\ project_type = Return("basic")
        /\ username = Return(UNKNOWN_USER)

\* C4 amended: such a text is classified (basic, 'unknown_user') provided it does
\* not contain the marker '追加支払い'; with the marker it is (additional, 'unknown_user').
C4_DefaultSafety ==
    pc = "done" /\ NoPatternNoStructure =>
        /\ username = Return(UNKNOWN_USER)
        /\ project_type = Return(IF Contains(text, MARKER) THEN "additional" ELSE "basic")

\* C4 witness: a non-empty text without pattern, structure or marker got the defaults.
C4_Witness ==
    /\ pc = "done"
    /\ \E i \in DOMAIN text : ~IsSpace(text[i])
    /\ NoPatternNoStructure
    /\ ~Contains(text, MARKER)
    /\ project_type.val = "basic"
    /\ username.val = UNKNOWN_USER

\* C5 as stated: when some line other than the last starts with '案件名：', the
\* username is the line after the first such line with only trailing whitespace
\* removed (leading whitespace preserved).
C5_Original ==
    pc = "done" /\ LabelLines # {} =>
        /\ username.exc = "none"
        /\ IsRightTrimOf(username.val, Lines[FirstLabelLine + 1])

\* C5 amended: the username is the line after the first such line with leading
\* and trailing whitespace removed, whatever its content (empty included).
C5_LineFollowing ==
    pc = "done" /\ LabelLines # {} =>
        /\ username.exc = "none"
        /\ IsTrimOf(username.val, Lines[FirstLabelLine + 1])

\* C5 witness: the following line starts with whitespace and the username is its
\* non-empty remainder.
C5_Witness ==
    /\ pc = "done"
    /\ LabelLines # {}
    /\ Lines[FirstLabelLine + 1] # <<>>
    /\ IsSpace(Lines[FirstLabelLine + 1][1])
    /\ username.val # <<>>
    /\ IsTrimOf(username.val, Lines[FirstLabelLine + 1])

\* C6: without a line, other than the last, starting with '案件名：', the username
\* is the table pattern's token if the table pattern matches, else the first payee
\* match's captured group if there is one, else 'unknown_user'.
C6_FallbackOrder ==
    pc = "done" /\ LabelLines = {} =>
        username =
            IF TableMatch # <<>> THEN Return(TableMatch[1].captured_group)
            ELSE IF Found.payee # <<>> THEN Return(Found.payee[1].captured_group)
            ELSE Return(UNKNOWN_USER)

\* C6 witness: the table pattern and the payee pattern both match, with different
\* content, and the table token is returned.
C6_Witness ==
    /\ pc = "done"
    /\ LabelLines = {}
    /\ TableMatch # <<>>
    /\ Found.payee # <<>>
    /\ Found.payee[1].captured_group # TableMatch[1].captured_group
    /\ username.val = TableMatch[1].captured_group

\* the literal a match of the label's pattern must contain
Token(key) ==
    CASE key = "receipt_number" -> {RYOSHUSHO_BANGO}
      [] key = "issue_date" -> {<<30330>>}
      [] key = "addressee" -> {<<27096>>, <<27583>>}
      [] key = "payee" -> {RYOSHUSHA}
      [] key = "amount" -> {<<65509>>, <<165>>}
      [] key = "project_name" -> {ANKENMEI}

\* C8: patterns_found has an entry, a sequence, for each of the six labels, and a
\* label whose token does not occur in the text maps to the empty sequence.
C8_MatchTableComplete ==
    pc = "done" =>
        /\ DOMAIN Found = PatternLabels
        /\ \A key \in PatternLabels :
              /\ DOMAIN Found[key] = 1..Len(Found[key])
              /\ (\A tok \in Token(key) : ~Contains(text, tok)) => Found[key] = <<>>

\* C8 witness: one label has a match while another has none and still has its entry.
C8_Witness ==
    /\ pc = "done"
    /\ Found.amount # <<>>
    /\ Found.project_name = <<>>
    /\ "project_name" \in DOMAIN Found

\* C9: the captured group of every project-name match lies on the line of the
\* label and its separator: the matched text spans no line break.
C9_SameLine ==
    pc = "done" =>
        \A k \in DOMAIN Found.project_name :
            ~Contains(Found.project_name[k].matched_text, <<NL>>)


(***************************************************************************)
(* Properties of the batch                                                 *)
(***************************************************************************)
\* the strings joined by '/'
RECURSIVE JoinSlash(_)
JoinSlash(ss) ==
    IF ss = <<>> THEN <<>>
    ELSE IF Len(ss) = 1 THEN ss[1]
    ELSE ss[1] \o <<47>> \o JoinSlash(Tail(ss))

\* projects/_unknown/<source subdir>/<file name>
UnknownDest(file) == Rel(<<PROJECTS, UNKNOWN_DIR>> \o file.parts)

\* projects/<label>/<source subdir>/<username>/<file name>, read as a path
NamedDest(file, label, user) ==
    ParsePath(JoinSlash(<<PROJECTS, label>> \o Parent(file).parts \o <<user, Name(file)>>))

\* the place a path leads to lies in projects/_unknown
InUnknownBucket(p) ==
    LET r == Resolve(p)
    IN ~r.abs /\ Len(r.parts) >= 2 /\ SubSeq(r.parts, 1, 2) = <<PROJECTS, UNKNOWN_DIR>>

\* C7: a file with non-empty text is copied to projects/_unknown/<subdir>/<name>
\* if and only if its username is 'unknown_user' (or processing raised); otherwise
\* to projects/<label>/<subdir>/<username>/<name>, and then it is never placed in
\* the _unknown bucket.
C7_Routing ==
    \A j \in DOMAIN handled :
        LET h == handled[j]
        IN h.text # <<>> /\ ~h.raised =>
              /\ Len(h.copies) = 1
              /\ IF h.username = UNKNOWN_USER
                 THEN h.copies[1] = UnknownDest(h.file)
                 ELSE /\ h.copies[1] = NamedDest(h.file, projects[h.project_type], h.username)
                      /\ ~InUnknownBucket(h.copies[1])

\* the PDFs of the tree, in ascending order, each once
IsSortedListing(files) ==
    /\ {files[k] : k \in DOMAIN files} = {f \in tree : IsPdf(f)}
    /\ \A a, b \in DOMAIN files : a < b => PathLess(files[a], files[b])

UnderProjects(p) ==
    LET r == Resolve(p)
    IN ~r.abs /\ Len(r.parts) >= 2 /\ r.parts[1] = PROJECTS

\* the places the copies of the j-th handled file were written to
Places(j) == {Resolve(handled[j].copies[k]) : k \in DOMAIN handled[j].copies}

\* C11: within one run no two distinct source PDFs are copied to the same
\* destination, and every destination lies under <result_dir>/projects, whatever
\* username the classifier returned (empty, with separators, with '..').
C11_DistinctDestinations ==
    /\ \A i, j \in DOMAIN handled : i # j => Places(i) \cap Places(j) = {}
    /\ \A j \in DOMAIN handled :
          \A k \in DOMAIN handled[j].copies : UnderProjects(handled[j].copies[k])

\* the entries of project_stats and of user_stats recorded for a source file
ProjectEntries(file) ==
    {k \in DOMAIN project_stats :
        project_stats[k].source_dir = Parent(file) /\ project_stats[k].name = Name(file)}
UserEntries(file) ==
    {k \in DOMAIN user_stats :
        user_stats[k].source_dir = Parent(file) /\ user_stats[k].name = Name(file)}

\* projects/<project>/<source_dir>/<username>/<name> of a statistics entry
EntryDest(e) ==
    PathJoinStr(PathJoinStr(PathJoin(PathJoinStr(projects_dir, e.project), e.source_dir),
                            e.username), e.name)

\* C12: the statistics agree with the placement: a file has an entry in
\* project_stats and in user_stats if and only if it was copied into
\* projects/<project>/<source_dir>/<username>/ of that entry; a file that was
\* copied to _unknown, or not at all, has no entry; the two tables hold the same
\* number of files.
C12_StatsAgree ==
    /\ Len(project_stats) = Len(user_stats)
    /\ \A j \in DOMAIN handled :
          LET h == handled[j]
          IN /\ \A k \in ProjectEntries(h.file) : h.copies = <<EntryDest(project_stats[k])>>
             /\ \A k \in UserEntries(h.file) : h.copies = <<EntryDest(user_stats[k])>>
             /\ h.copies # <<>> /\ h.copies[1] # UnknownDest(h.file) =>
                   ProjectEntries(h.file) # {} /\ UserEntries(h.file) # {}

=============================================================================
